---- MODULE Spec2Model ----
(***************************************************************************)
(* Verification model of the ghcrawler-datalake-etl data verification      *)
(* tools (src/verification): the date-bounded counters that walk a         *)
(* paginated reverse-chronological GitHub listing, the page addressing     *)
(* helpers, the repository diff and the audit report loop.                 *)
(*                                                                         *)
(* A run of the tool executes one operation (op) on inputs chosen in Init. *)
(* Dates are day numbers: the code compares 'YYYY-MM-DD' strings, whose    *)
(* lexicographic order is the calendar order; 0 stands for the empty       *)
(* string '' where a date field can be empty.  Strings that the code       *)
(* inspects character by character are sequences of one-character strings. *)
(***************************************************************************)
EXTENDS Integers, Sequences, FiniteSets, TLC

\* ------------------------------------------------------------------ bounds
PageSize == 3      \* items per page (stands for per_page=100 and the "* 100")
MaxItems == 8      \* longest listing served by the API
MaxDate == 4       \* item dates are 1..MaxDate
MaxFaults == 1     \* failed page fetches injected per run

VARIABLES
    op,                \* operation of this run
    variant,           \* source file / flavour of the operation
    listing,           \* the server's listing: item dates, newest first
    thedate,           \* asofdate / thedate argument of the counter
    pc,                \* position in the running function
    status,            \* "running", "returned" or "raised"
    result,            \* value returned by the counter
    requests,          \* page numbers requested so far, in order
    responses,         \* kind of the response to each request, in order
    endpoint,          \* local: current endpoint
    thispage,          \* local: response held by the exact-date loop
    totpages,          \* local: int(pagelinks['lastpage'])
    lastpage_url,      \* local: pagelinks['lastURL']
    jsondata,          \* local: items of the page held
    commits_firstpage, \* local
    commits_lastpage,  \* local
    pageno,            \* local
    commits,           \* local of the exact-date counter
    pages_checked,     \* local of the exact-date counter
    page_before,       \* local of the exact-date counter
    page_after,        \* local of the exact-date counter
    github,            \* rows of the GitHub repo file
    datalake,          \* rows of the Data Lake repo file
    repo_diff_csv,     \* data rows of the diff report, repo_diff(github, datalake)
    repo_diff_ret,     \* the tuple repo_diff returned
    swapped_csv,       \* data rows of repo_diff(datalake, github)
    swapped_ret,       \* the tuple that run returned
    repocsv,           \* org/repo of each row of data/Repo.csv
    totfile,           \* rows of the repototals file written by dailytotals
    rowno,             \* row of Repo.csv the report loop is at (0: no loop)
    reportfile,        \* data rows of the audit report
    repo_tot,          \* _settings.repo_tot_*: the totals dictionary of each kind
    repo_tot_loaded,   \* the kinds with hasattr(_settings, 'repo_tot_*')
    totfile_other,     \* rows of the repototals file of a date other than thedate
    lookups,           \* the calls of *_asofdate_datalake, with the value returned
    files_read,        \* the repototals files opened by them, in order
    failed,            \* rows of Repo.csv during whose count a fetch failed
    payload,           \* github_allpages: positions in the listing of the items got
    page_endpoint,     \* github_allpages: endpoint of the page to fetch
    retval,            \* github_pagination: the dictionary it returned
    rawdata,           \* rows of the daily activity log read by dailytotals
    privateRepos,      \* data rows of privateRepos.csv
    tot_issues,        \* dailytotals: dictionary orgrepo -> issues, in insertion order
    tot_prs,           \* dailytotals: dictionary orgrepo -> pull requests
    tot_commits,       \* dailytotals: dictionary orgrepo -> commits
    lineno,            \* dailytotals: rows of the log read so far
    notfound_at        \* position in the listing of an item whose text has the
                       \* words 'not found' (0: no item has them)

inputs == <<op, variant, listing, thedate, github, datalake, repocsv, totfile,
            notfound_at, totfile_other>>
lookupState == <<repo_tot, repo_tot_loaded, lookups, files_read>>
reportState == <<rowno, reportfile, lookupState>>
diffOut == <<repo_diff_csv, repo_diff_ret, swapped_csv, swapped_ret>>
asofLocals == <<totpages, lastpage_url, jsondata, commits_firstpage,
                commits_lastpage>>
ondateLocals == <<thispage, commits, pages_checked, page_before, page_after>>
allpagesLocals == <<payload, page_endpoint>>
\* state of the operations that the counters, the diff and the audit report
\* never touch
totalsLocals == <<tot_issues, tot_prs, tot_commits, lineno>>
otherRuns == <<allpagesLocals, retval, rawdata, privateRepos, totalsLocals>>
vars == <<inputs, pc, status, result, requests, responses, failed, endpoint,
          pageno, asofLocals, ondateLocals, diffOut, reportState, otherRuns>>

\* ------------------------------------------------------------ the listing
Min(a, b) == IF a < b THEN a ELSE b
Max(a, b) == IF a > b THEN a ELSE b

\* Reverse-chronological listings of at most n items, built item by item:
\* an item is never newer than the one before it.
RECURSIVE ListingsUpTo(_)
ListingsUpTo(n) ==
    IF n = 0 THEN {<<>>}
    ELSE LET shorter == ListingsUpTo(n - 1)
         IN shorter \cup
            UNION { {Append(s, d) : d \in 1..(IF Len(s) = 0 THEN MaxDate ELSE s[Len(s)])}
                    : s \in {t \in shorter : Len(t) = n - 1} }
SortedListings == ListingsUpTo(MaxItems)

\* Number of pages of a listing.
TotalPages(l) == (Len(l) + PageSize - 1) \div PageSize

\* Items of page n; a page number outside 1..TotalPages(l) has no items.
ServerPage(l, n) ==
    IF n < 1 \/ n > TotalPages(l) THEN <<>>
    ELSE SubSeq(l, (n - 1) * PageSize + 1, Min(n * PageSize, Len(l)))

\* ---------------------------------------------------------------- endpoints
\* An endpoint is the sequence of its '&'-separated segments, endpoint.split('&');
\* a segment is key=value (the first one also carries the path before '?').
NoURL == <<>>
Seg(k, v) == [key |-> k, val |-> v, num |-> TRUE]    \* key=<number>
Txt(k) == [key |-> k, val |-> 0, num |-> FALSE]      \* key=<text>, int() of it raises
CommitsEndpoint == <<Seg("commits?per_page", PageSize), Seg("page", 1)>>
IssuesEndpoint ==
    <<Txt("issues?filter=all"), Txt("state=all"),
      Seg("per_page", PageSize), Seg("page", 1)>>
PullsEndpoint ==
    <<Txt("pulls?state=all"), Seg("per_page", PageSize), Seg("page", 1)>>

\* Result of a call that may raise.
Ok(v) == [ok |-> TRUE, val |-> v]
Raise == [ok |-> FALSE, val |-> 0]

\* the endpoint written for the page before page n
endpoint_for_pageno_before(e, n) ==
    IF Len(e) # 2 THEN Raise
    ELSE Ok(<<e[1], Seg("page", n - 1)>>)
\* endpoint_for_pageno(endpoint, pageno)
endpoint_for_pageno(e, n) ==
    IF Len(e) # 2 THEN Raise    \* root, _ = endpoint.split('&') fails to unpack
    ELSE Ok(<<e[1], Seg("page", n)>>)

endpoint_to_pageno(e) ==
    IF Len(e) < 2 THEN Ok(1)
    ELSE IF e[Len(e)].num THEN Ok(e[Len(e)].val) ELSE Raise

\* audit.py converts in line: '&'.join(endpoint.split('&')[:-1]) + '&page=' + str(pageno)
join_for_pageno(e, n) ==
    IF Len(e) = 0 THEN <<Txt(""), Seg("page", n)>>
    ELSE SubSeq(e, 1, Len(e) - 1) \o <<Seg("page", n)>>

\* The page the server serves for an endpoint: its page query parameter
\* (page 1 when there is none).
RequestedPage(e) ==
    LET idx == {i \in 1..Len(e) : e[i].key = "page" \/ e[i].key = "commits?page"}
    IN IF idx = {} THEN 1 ELSE e[CHOOSE i \in idx : \A j \in idx : j <= i].val

\* The same URL with its page parameter set to n (what the server writes
\* into the Link header).
WithPage(e, n) ==
    IF \A i \in 1..Len(e) : e[i].key # "page" /\ e[i].key # "commits?page"
    THEN e \o <<Seg("page", n)>>
    ELSE [i \in 1..Len(e) |->
            IF e[i].key = "page" THEN Seg("page", n)
            ELSE IF e[i].key = "commits?page" THEN Seg("commits?page", n)
            ELSE e[i]]

\* ---------------------------------------------------------------- responses
RespKinds == {"ok", "emptybody", "error", "notfound"}

\* Link header of page n of a listing served at endpoint e; GitHub sends none
\* when the listing fits one page.
NoLinks == [rel \in {"first", "prev", "next", "last"} |-> NoURL]
HasLinkHeader(l) == TotalPages(l) > 1
LinkHeader(l, e, n) ==
    IF ~HasLinkHeader(l) THEN NoLinks
    ELSE [rel \in {"first", "prev", "next", "last"} |->
            CASE rel = "first" -> IF n > 1 THEN WithPage(e, 1) ELSE NoURL
              [] rel = "prev" -> IF n > 1 THEN WithPage(e, n - 1) ELSE NoURL
              [] rel = "next" -> IF n < TotalPages(l) THEN WithPage(e, n + 1) ELSE NoURL
              [] rel = "last" -> IF n < TotalPages(l) THEN WithPage(e, TotalPages(l)) ELSE NoURL]

\* requests_session.get(endpoint): text is "list" (a JSON array of items),
\* "" (empty body), "dict" (a JSON error object) or "dict_notfound" (an error
\* object whose message says 'Not Found' / 'Git Repository is empty'); words
\* tells whether the body holds the words 'not found' anywhere, in its error
\* message or in the text of one of its items.
Get(l, e, kind) ==
    CASE kind = "ok" ->
            [ok |-> TRUE, text |-> "list", items |-> ServerPage(l, RequestedPage(e)),
             haslink |-> HasLinkHeader(l), link |-> LinkHeader(l, e, RequestedPage(e)),
             words |-> Len(ServerPage(l, RequestedPage(e))) > 0
                       /\ notfound_at > (RequestedPage(e) - 1) * PageSize
                       /\ notfound_at <= RequestedPage(e) * PageSize]
      [] kind = "emptybody" ->
            [ok |-> TRUE, text |-> "", items |-> <<>>, haslink |-> FALSE, link |-> NoLinks,
             words |-> FALSE]
      [] kind = "error" ->
            [ok |-> FALSE, text |-> "dict", items |-> <<>>, haslink |-> FALSE, link |-> NoLinks,
             words |-> FALSE]
      [] kind = "notfound" ->
            [ok |-> FALSE, text |-> "dict_notfound", items |-> <<>>, haslink |-> FALSE,
             link |-> NoLinks, words |-> TRUE]
      [] kind = "errorlinked" ->
            \* an error object sent with the Link header of the page asked for
            [ok |-> FALSE, text |-> "dict", items |-> <<>>,
             haslink |-> HasLinkHeader(l), link |-> LinkHeader(l, e, RequestedPage(e)),
             words |-> FALSE]

\* The page number github_pagination reads from a URL:
\* url.split('?')[-1].split('=')[-1], the text after the last '='.
LinkPageNo(url) == IF Len(url) = 0 THEN 0 ELSE url[Len(url)].val

\* github_pagination: URL and page number of each relation of the Link header;
\* None and 0 for a relation that is absent, and for all without the header.
github_pagination(resp) ==
    IF ~resp.haslink
    THEN [firstpage |-> 0, firstURL |-> NoURL, prevpage |-> 0, prevURL |-> NoURL,
          nextpage |-> 0, nextURL |-> NoURL, lastpage |-> 0, lastURL |-> NoURL]
    ELSE [firstpage |-> LinkPageNo(resp.link["first"]), firstURL |-> resp.link["first"],
          prevpage |-> LinkPageNo(resp.link["prev"]), prevURL |-> resp.link["prev"],
          nextpage |-> LinkPageNo(resp.link["next"]), nextURL |-> resp.link["next"],
          lastpage |-> LinkPageNo(resp.link["last"]), lastURL |-> resp.link["last"]]

\* len([item for item in jsondata if item date [:10] <= asofdate])
CountAsOf(items, d) == Cardinality({i \in 1..Len(items) : items[i] <= d})
\* the same comprehension comparing with <= where the code compares with ==
CountOn_atmost(items, d) == Cardinality({i \in 1..Len(items) : items[i] <= d})
\* len([True for commit in jsondata if date [:10] == thedate])
CountOn(items, d) == Cardinality({i \in 1..Len(items) : items[i] = d})

\* ------------------------------------------------------------ control flow
\* return <v>
Return(v) == status' = "returned" /\ result' = v /\ pc' = "return"
\* an uncaught exception leaves the function
Raised == status' = "raised" /\ result' = result /\ pc' = "return"

\* Failed fetches so far.
Faults == Cardinality({i \in 1..Len(responses) : responses[i] # "ok"})

\* A fetch answers "ok" or, within the fault budget, fails.
Fetch(url, kind) ==
    /\ kind = "ok" \/ Faults < MaxFaults
    /\ responses' = Append(responses, kind)
    /\ failed' = IF kind = "ok" THEN failed ELSE failed \cup {rowno}
    /\ requests' = Append(requests, RequestedPage(url))

\* First endpoint of a counter.
FirstEndpoint(v) ==
    CASE v = "audit_issues" -> IssuesEndpoint
      [] v = "audit_prs" -> PullsEndpoint
      [] OTHER -> CommitsEndpoint

AsOfVariants == {"audit_commits", "audit_issues", "audit_prs", "ghiverify"}

\* ----------------------------------------------------- the as-of counter
\* the first-page test with neither message recognised
RepoEmptyOrNotFound_never(page) == FALSE
\* 'git repository is empty' in str(jsondata).lower() or
\* 'not found' in str(jsondata).lower()
RepoEmptyOrNotFound(page) == page.text # "" /\ page.words

\* "handle first page"
AsOfFirstPage ==
    /\ op \in {"asof", "report"} /\ pc = "first"
    /\ \E kind \in RespKinds :
        /\ Fetch(endpoint, kind)
        /\ LET firstpage == Get(listing, endpoint, kind)
               pagelinks == github_pagination(firstpage)
               n == CountAsOf(firstpage.items, thedate)
           IN CASE firstpage.text = "" ->
                      \* audit.py returns 0; ghiverify.py has no such test and
                      \* json.loads('') raises
                      /\ IF variant = "ghiverify" THEN Raised ELSE Return(0)
                      /\ UNCHANGED asofLocals
                [] RepoEmptyOrNotFound(firstpage) ->
                      Return(0) /\ UNCHANGED asofLocals
                [] firstpage.text \in {"dict", "dict_notfound"}
                        /\ ~RepoEmptyOrNotFound(firstpage) ->
                      \* the comprehension indexes the keys of the error object
                      Raised /\ UNCHANGED asofLocals
                [] firstpage.text = "list" /\ ~RepoEmptyOrNotFound(firstpage) ->
                      /\ totpages' = pagelinks.lastpage
                      /\ lastpage_url' = pagelinks.lastURL
                      /\ jsondata' = firstpage.items
                      /\ commits_firstpage' = n
                      /\ UNCHANGED commits_lastpage
                      /\ IF Len(pagelinks.lastURL) = 0
                         THEN Return(n)
                         ELSE pc' = "last" /\ UNCHANGED <<status, result>>
    /\ UNCHANGED <<inputs, otherRuns, endpoint, pageno, ondateLocals, diffOut, reportState>>

\* "handle last page"
AsOfLastPage ==
    /\ op \in {"asof", "report"} /\ pc = "last"
    /\ \E kind \in RespKinds :
        /\ Fetch(lastpage_url, kind)
        /\ LET lastpage == Get(listing, lastpage_url, kind)
               n == CountAsOf(lastpage.items, thedate)
           IN IF lastpage.text # "list"
              THEN Raised /\ UNCHANGED <<commits_lastpage, pageno>>
              ELSE /\ commits_lastpage' = n
                   /\ IF n = 0
                      THEN Return(0) /\ UNCHANGED pageno
                      ELSE pageno' = 1 /\ pc' = "walk" /\ UNCHANGED <<status, result>>
    /\ UNCHANGED <<inputs, otherRuns, endpoint, totpages, lastpage_url, jsondata,
                   commits_firstpage, ondateLocals, diffOut, reportState>>

\* the endpoint of the page after page n
AsOfNextEndpoint_skip(v, e, n) == Ok(join_for_pageno(e, n + 1))
\* The endpoint of page n as each variant computes it.
AsOfNextEndpoint(v, e, n) ==
    IF v = "ghiverify" THEN endpoint_for_pageno(e, n) ELSE Ok(join_for_pageno(e, n))

\* one turn of "scan back from first page": the loop test holds
AsOfWalk ==
    /\ op \in {"asof", "report"} /\ pc = "walk"
    /\ Len(jsondata) > 0 /\ jsondata[Len(jsondata)] > thedate
    /\ LET next == AsOfNextEndpoint(variant, endpoint, pageno + 1)
       IN IF ~next.ok
          THEN /\ Raised
               /\ UNCHANGED <<requests, responses, failed, endpoint, jsondata, commits_firstpage>>
               /\ pageno' = pageno + 1
          ELSE \E kind \in RespKinds :
               /\ Fetch(next.val, kind)
               /\ pageno' = pageno + 1
               /\ endpoint' = next.val
               /\ LET page == Get(listing, next.val, kind)
                  IN IF page.text # "list"
                     THEN Raised /\ UNCHANGED <<jsondata, commits_firstpage>>
                     ELSE /\ jsondata' = page.items
                          /\ commits_firstpage' = CountAsOf(page.items, thedate)
                          /\ UNCHANGED <<pc, status, result>>
    /\ UNCHANGED <<inputs, otherRuns, totpages, lastpage_url, commits_lastpage, ondateLocals,
                   diffOut, reportState>>

\* the loop test fails (or indexes an empty page) and the function returns
AsOfReturn ==
    /\ op \in {"asof", "report"} /\ pc = "walk"
    /\ ~(Len(jsondata) > 0 /\ jsondata[Len(jsondata)] > thedate)
    /\ IF Len(jsondata) = 0
       THEN Raised    \* jsondata[-1] of an empty list
       ELSE Return((totpages - pageno - 1) * PageSize
                   + commits_firstpage + commits_lastpage)
    /\ UNCHANGED <<inputs, otherRuns, requests, responses, failed, endpoint, pageno, asofLocals,
                   ondateLocals, diffOut, reportState>>

\* ------------------------------------------------- the exact-date counter
\* first request and the assignments before the loop
OnDateStart ==
    /\ op = "ondate" /\ pc = "first"
    /\ \E kind \in RespKinds :
        /\ Fetch(endpoint, kind)
        /\ thispage' = Get(listing, endpoint, kind)
    /\ commits' = 0
    /\ totpages' = github_pagination(thispage').lastpage
    /\ pages_checked' = <<>>
    /\ page_before' = 0
    /\ page_after' = totpages' + 1
    /\ pc' = "loop"
    /\ UNCHANGED <<inputs, otherRuns, status, result, endpoint, pageno, lastpage_url,
                   jsondata, commits_firstpage, commits_lastpage, diffOut,
                   reportState>>

\* Top of the loop body, up to the dates of the page.
\* "pageno in pages_checked" never true
Checked_never(n) == FALSE
\* pageno in pages_checked
Checked(n) == \E i \in 1..Len(pages_checked) : pages_checked[i] = n
HerePage == endpoint_to_pageno(endpoint)
\* the page cannot be processed: 'not thispage.ok' (whose print raises
\* TypeError, str() being given two arguments), an endpoint without a page
\* number, json.loads of an empty body, or jsondata[0] of an empty list
OnDateUnusable ==
    \/ ~thispage.ok
    \/ ~HerePage.ok
    \/ (~Checked(HerePage.val) /\ (thispage.text # "list" \/ Len(thispage.items) = 0))
OnDateUsable == ~OnDateUnusable /\ ~Checked(HerePage.val)
highest_date == thispage.items[1]
lowest_date == thispage.items[Len(thispage.items)]

\* requests the page the loop continues with
OnDateGoto(newpage) ==
    LET next == endpoint_for_pageno(endpoint, newpage)
    IN IF ~next.ok
       THEN Raised /\ UNCHANGED <<requests, responses, failed, endpoint, thispage>>
       ELSE /\ endpoint' = next.val
            /\ \E kind \in RespKinds :
                 /\ Fetch(next.val, kind)
                 /\ thispage' = Get(listing, next.val, kind)
            /\ UNCHANGED <<pc, status, result>>

OnDateFrame ==
    UNCHANGED <<inputs, otherRuns, totpages, lastpage_url, commits_firstpage, commits_lastpage,
                diffOut, reportState>>

OnDateFail ==
    /\ op = "ondate" /\ pc = "loop"
    /\ OnDateUnusable
    /\ Raised
    /\ UNCHANGED <<requests, responses, failed, endpoint, pageno, jsondata, ondateLocals>>
    /\ OnDateFrame

\* "we've been here already, so we're done"
OnDateRevisit ==
    /\ op = "ondate" /\ pc = "loop"
    /\ ~OnDateUnusable /\ Checked(HerePage.val)
    /\ pageno' = HerePage.val
    /\ Return(commits)
    /\ UNCHANGED <<requests, responses, failed, endpoint, jsondata, ondateLocals>>
    /\ OnDateFrame

\* highest_date < thedate
OnDateHighBelow ==
    /\ op = "ondate" /\ pc = "loop"
    /\ OnDateUsable /\ highest_date < thedate
    /\ pageno' = HerePage.val
    /\ pages_checked' = Append(pages_checked, HerePage.val)
    /\ jsondata' = thispage.items
    /\ IF HerePage.val = 1
       THEN /\ Return(commits)
            /\ UNCHANGED <<requests, responses, failed, endpoint, thispage, page_after>>
       ELSE /\ page_after' = Min(HerePage.val, page_after)
            /\ OnDateGoto((HerePage.val + page_before) \div 2)
    /\ UNCHANGED <<commits, page_before>>
    /\ OnDateFrame

\* lowest_date > thedate
OnDateLowAbove ==
    /\ op = "ondate" /\ pc = "loop"
    /\ OnDateUsable /\ ~(highest_date < thedate) /\ lowest_date > thedate
    /\ pageno' = HerePage.val
    /\ pages_checked' = Append(pages_checked, HerePage.val)
    /\ jsondata' = thispage.items
    /\ IF HerePage.val = totpages
       THEN /\ Return(commits)
            /\ UNCHANGED <<requests, responses, failed, endpoint, thispage, page_before>>
       ELSE /\ page_before' = Max(HerePage.val, page_before)
            /\ OnDateGoto((HerePage.val + page_after) \div 2)
    /\ UNCHANGED <<commits, page_after>>
    /\ OnDateFrame

\* "count commits on this page matching thedate", then stop or scan on
OnDateCount ==
    /\ op = "ondate" /\ pc = "loop"
    /\ OnDateUsable /\ ~(highest_date < thedate) /\ ~(lowest_date > thedate)
    /\ pageno' = HerePage.val
    /\ pages_checked' = Append(pages_checked, HerePage.val)
    /\ jsondata' = thispage.items
    /\ commits' = commits + CountOn(thispage.items, thedate)
    /\ CASE highest_date > thedate /\ lowest_date < thedate ->
                /\ Return(commits')
                /\ UNCHANGED <<requests, responses, failed, endpoint, thispage>>
         [] ~(highest_date > thedate /\ lowest_date < thedate)
              /\ highest_date = thedate ->
                IF HerePage.val <= 1
                THEN /\ Return(commits')
                     /\ UNCHANGED <<requests, responses, failed, endpoint, thispage>>
                ELSE OnDateGoto(HerePage.val - 1)
         [] ~(highest_date > thedate /\ lowest_date < thedate)
              /\ highest_date # thedate /\ lowest_date = thedate ->
                IF HerePage.val >= totpages
                THEN /\ Return(commits')
                     /\ UNCHANGED <<requests, responses, failed, endpoint, thispage>>
                ELSE OnDateGoto(HerePage.val + 1)
    /\ UNCHANGED <<page_before, page_after>>
    /\ OnDateFrame

\* ------------------------------------------------------------- strings
\* str.lower() and str.upper(), character by character
LowerChar(c) ==
    CASE c = "A" -> "a" [] c = "B" -> "b" [] c = "M" -> "m"
      [] c = "P" -> "p" [] c = "R" -> "r" [] OTHER -> c
UpperChar(c) ==
    CASE c = "a" -> "A" [] c = "b" -> "B" [] c = "m" -> "M"
      [] c = "p" -> "P" [] c = "r" -> "R" [] OTHER -> c
lower(str) == [i \in 1..Len(str) |-> LowerChar(str[i])]
upper(str) == [i \in 1..Len(str) |-> UpperChar(str[i])]

\* code point order of the characters in use
Ord(c) ==
    CASE c = "-" -> 45 [] c = "." -> 46 [] c = "/" -> 47
      [] c = "A" -> 65 [] c = "B" -> 66 [] c = "M" -> 77 [] c = "P" -> 80
      [] c = "R" -> 82 [] c = "_" -> 95
      [] c = "a" -> 97 [] c = "b" -> 98 [] c = "m" -> 109 [] c = "p" -> 112
      [] c = "r" -> 114 [] OTHER -> 120

\* s < t as Python compares strings
RECURSIVE StrLess(_, _)
StrLess(str, t) ==
    IF Len(t) = 0 THEN FALSE
    ELSE IF Len(str) = 0 THEN TRUE
    ELSE IF str[1] # t[1] THEN Ord(str[1]) < Ord(t[1])
    ELSE StrLess(Tail(str), Tail(t))

\* t occurs in s at position i; t occurs in s
HasAt(str, i, t) == i + Len(t) - 1 <= Len(str) /\ SubSeq(str, i, i + Len(t) - 1) = t
Contains(str, t) == \E i \in 1..(Len(str) + 1) : HasAt(str, i, t)

\* documentation_repo(reponame): the two substring tests on the lower-cased
\* name, then re.match of each pattern of docrepos on the name as given
documentation_repo(reponame) ==
    \/ Contains(lower(reponame), <<"-", "p", "r", "_">>)
    \/ Contains(lower(reponame), <<"-", "p", "r", ".">>)
    \* .*-pr\..{2}-.{2}.*
    \/ \E i \in 1..Len(reponame) :
          /\ HasAt(reponame, i, <<"-", "p", "r", ".">>)
          /\ HasAt(reponame, i + 6, <<"-">>) /\ Len(reponame) >= i + 8
    \* .*\..{2}-.{2}.*
    \/ \E i \in 1..Len(reponame) :
          /\ HasAt(reponame, i, <<".">>)
          /\ HasAt(reponame, i + 3, <<"-">>) /\ Len(reponame) >= i + 5
    \* .*-pr$
    \/ (Len(reponame) >= 3 /\ HasAt(reponame, Len(reponame) - 2, <<"-", "p", "r">>))
    \* .*\.handoff.*  and  .*\.handback
    \/ Contains(reponame, <<".", "h", "a", "n", "d", "o", "f", "f">>)
    \/ Contains(reponame, <<".", "h", "a", "n", "d", "b", "a", "c", "k">>)
    \* ontent-{4}\/
    \/ HasAt(reponame, 1, <<"o", "n", "t", "e", "n", "t", "-", "-", "-", "-", "/">>)

\* ------------------------------------------------------------ repo diff
\* The run date, str(datetime.datetime.now())[:10].
Today == MaxDate - 1
\* Dates the Data Lake Repo.csv can carry as its modification time: the run
\* date or the day before.
FileDates == {Today - 1, Today}
\* get_asofdate without its timedelta(days=1)
get_asofdate_sameday(timestamp) == timestamp
\* get_asofdate(): the day before the modification time of the Data Lake file
get_asofdate(timestamp) == timestamp - 1
\* asofdate of repodiff.py's repo_data, held in thedate for the run
RepoAsOfDate == thedate

\* A row of a repo file: organization, repository name, repository id and
\* creation date as written in the file (creation date 0: an empty field).
Row(o, n, i, c) == [org |-> o, name |-> n, id |-> i, created |-> c]
RowSet ==
    { Row(<<"M">>, <<"a">>, 1, 1),
      Row(<<"m">>, <<"A">>, 1, 2),                 \* other letter case, other date
      Row(<<"M">>, <<"b">>, 2, 0),                 \* another name, empty creation date
      Row(<<"M">>, <<"a">>, 1, Today),             \* created on the run date
      Row(<<"B">>, <<"b">>, 4, 1),                 \* another organization
      Row(<<"M">>, <<"a", "-", "p", "r">>, 3, 1) } \* a documentation repository
MaxRows == 2
RepoFiles == UNION {[1..n -> RowSet] : n \in 0..MaxRows}

\* repo_include without its documentation_repo test
repo_include_anyname(reponame, created_at) == created_at # Today
\* repo_include(reponame, created_at)
repo_include(reponame, created_at) ==
    ~documentation_repo(reponame) /\ created_at # Today

\* repo_data(filename): the normalised tuples of the rows that are kept.
\* ghiverify.py keeps repo_include rows; repodiff.py drops documentation
\* repositories and rows created after the as-of date.
Normalised(r) == Row(upper(r.org), lower(r.name), r.id, r.created)
repo_data(v, file) ==
    LET norm == [i \in 1..Len(file) |-> Normalised(file[i])]
        KeepName(r) == repo_include(r.name, r.created)
        KeepId(r) == ~documentation_repo(r.name) /\ ~(r.created > RepoAsOfDate)
    IN IF v = "name" THEN SelectSeq(norm, KeepName) ELSE SelectSeq(norm, KeepId)

\* the field a variant identifies a repository by, next to the organization
RepoKey(v, r) == IF v = "name" THEN <<r.org, r.name>> ELSE <<r.org, r.id>>

\* repo_found(dataset, org, repo): creation date of the first record with this
\* organization and name (id in repodiff.py); False, here -1, when there is none
NotFound == 0 - 1
repo_found(v, dataset, key) ==
    LET hits == {i \in 1..Len(dataset) : RepoKey(v, dataset[i]) = key}
    IN IF hits = {} THEN NotFound
       ELSE dataset[CHOOSE i \in hits : \A j \in hits : i <= j].created

\* Python truth value of what repo_found returned: False and '' are false
Truthy(created) == created > 0

\* the three lists repo_diff builds
MissingOf(v, repos_github, repos_datalake) ==
    LET Test(r) == ~Truthy(repo_found(v, repos_datalake, RepoKey(v, r)))
    IN SelectSeq(repos_github, Test)

\* the extra list testing "is not False" where the code tests truth
ExtraOf_present(v, repos_github, repos_datalake) ==
    LET Test(r) == repo_found(v, repos_github, RepoKey(v, r)) = NotFound
    IN SelectSeq(repos_datalake, Test)
ExtraOf(v, repos_github, repos_datalake) ==
    LET Test(r) == ~Truthy(repo_found(v, repos_github, RepoKey(v, r)))
    IN SelectSeq(repos_datalake, Test)

\* ghiverify.py only; repodiff.py builds no mismatch list
MismatchOf(v, repos_github, repos_datalake) ==
    LET Test(r) ==
            /\ Truthy(repo_found(v, repos_datalake, RepoKey(v, r)))
            /\ r.created # repo_found(v, repos_datalake, RepoKey(v, r))
    IN IF v = "name" THEN SelectSeq(repos_github, Test) ELSE <<>>

\* the tuple order with the repository name compared before the organization
TupleLess_repofirst(v, r, t) ==
    IF r.name # t.name THEN StrLess(r.name, t.name)
    ELSE IF r.org # t.org THEN StrLess(r.org, t.org)
    ELSE IF v = "name" THEN FALSE
    ELSE IF r.id # t.id THEN r.id < t.id
    ELSE r.created < t.created
\* tuple order of sorted(): (org, repo) in ghiverify.py,
\* (org, repo_name, repo_id, created_at) in repodiff.py
TupleLess(v, r, t) ==
    IF r.org # t.org THEN StrLess(r.org, t.org)
    ELSE IF r.name # t.name THEN StrLess(r.name, t.name)
    ELSE IF v = "name" THEN FALSE
    ELSE IF r.id # t.id THEN r.id < t.id
    ELSE r.created < t.created

\* the rows written for one list
ReportRows(v, rows, issue) ==
    LET Less(r, t) == TupleLess(v, r, t)
        srt == SortSeq(rows, Less)
    IN [i \in 1..Len(srt) |->
          IF v = "name" THEN <<srt[i].org, srt[i].name, issue>>
          ELSE <<srt[i].org, srt[i].name, srt[i].id, srt[i].created, issue>>]

\* "write output file": the data rows under the header
DiffReport(v, gh, dl) ==
    LET repos_github == repo_data(v, gh)
        repos_datalake == repo_data(v, dl)
    IN ReportRows(v, MissingOf(v, repos_github, repos_datalake), "missing")
       \o ReportRows(v, ExtraOf(v, repos_github, repos_datalake), "extra")
       \o ReportRows(v, MismatchOf(v, repos_github, repos_datalake), "mismatch")

\* the tuple returned: (missing, extra, mismatch), or (missing, extra)
DiffReturn(v, gh, dl) ==
    LET repos_github == repo_data(v, gh)
        repos_datalake == repo_data(v, dl)
        m == Len(MissingOf(v, repos_github, repos_datalake))
        x == Len(ExtraOf(v, repos_github, repos_datalake))
        d == Len(MismatchOf(v, repos_github, repos_datalake))
    IN IF v = "name" THEN <<m, x, d>> ELSE <<m, x>>

CountersIdle ==
    UNCHANGED <<status, result, requests, responses, failed, endpoint, pageno,
                asofLocals, ondateLocals>>

\* repo_diff(github, datalake)
RepoDiff ==
    /\ op = "diff" /\ pc = "diff"
    /\ repo_diff_csv' = DiffReport(variant, github, datalake)
    /\ repo_diff_ret' = DiffReturn(variant, github, datalake)
    /\ pc' = "diffed"
    /\ UNCHANGED <<inputs, otherRuns, swapped_csv, swapped_ret, reportState>> /\ CountersIdle

\* repo_diff run again with the two files exchanged
RepoDiffSwapped ==
    /\ op = "diff" /\ pc = "diffed"
    /\ swapped_csv' = DiffReport(variant, datalake, github)
    /\ swapped_ret' = DiffReturn(variant, datalake, github)
    /\ pc' = "return"
    /\ UNCHANGED <<inputs, otherRuns, repo_diff_csv, repo_diff_ret, reportState>> /\ CountersIdle

\* -------------------------------------------------------- audit reports
\* orgfilter of audit_reports(get_asofdate(), ['microsoft'])
OrgFilter == {<<"m">>}

\* rows of Repo.csv (column 11 is org/repo) and of the repototals file
Repo(o, n) == [org |-> o, name |-> n]
ReportRepos ==
    { Repo(<<"M">>, <<"a">>), Repo(<<"M">>, <<"b">>),
      Repo(<<"M">>, <<"a", "-", "p", "r">>),     \* a documentation repository
      Repo(<<"a">>, <<"b">>) }                   \* an organization not audited
MaxRepos == 2
RepoCsvFiles == UNION {[1..n -> ReportRepos] : n \in 0..MaxRepos}
Tot(o, n, i, p, c) == [org |-> o, name |-> n, issues |-> i, prs |-> p, commits |-> c]
TotFiles ==
    { <<>>, <<Tot(<<"M">>, <<"a">>, 1, 2, 3)>>,
      <<Tot(<<"M">>, <<"a">>, 1, 2, 3), Tot(<<"m">>, <<"B">>, 4, 5, 6)>> }

\* listings served to the report loop: at most two pages
ReportListings ==
    {l \in SortedListings : Len(l) <= PageSize + 1 /\ \A i \in 1..Len(l) : l[i] <= 2}

\* the dictionary commits/issues/prs_asofdate_datalake builds on first use:
\* lower-cased org/repo -> the column of its kind (a later line overwrites)
TotalsColumn(v, line) ==
    CASE v = "audit_issues" -> line.issues
      [] v = "audit_prs" -> line.prs
      [] OTHER -> line.commits
TotalsKey(o, n) == <<lower(o), lower(n)>>
LoadTotals(v, file) ==
    LET keys == {TotalsKey(file[i].org, file[i].name) : i \in 1..Len(file)}
        LastLine(k) ==
            CHOOSE i \in 1..Len(file) :
                /\ TotalsKey(file[i].org, file[i].name) = k
                /\ \A j \in 1..Len(file) :
                     TotalsKey(file[j].org, file[j].name) = k => j <= i
    IN [k \in keys |-> TotalsColumn(v, file[LastLine(k)])]
\* dict.get(key, 0)
DictGet(d, k) == IF k \in DOMAIN d THEN d[k] ELSE 0

\* the three lookups: a dictionary for each, loaded by its own first call
Kinds == {"audit_commits", "audit_issues", "audit_prs"}
\* 'data-verification/repototals-' + asofdate + '.csv'
TotalsFileOf(asofdate) == IF asofdate = thedate THEN totfile ELSE totfile_other
\* a lookup that finds no dictionary whatever came before
TotalsLoaded_never(kind) == FALSE
\* hasattr(_settings, 'repo_tot_commits'), and of issues and prs
TotalsLoaded(kind) == kind \in repo_tot_loaded
Lookup(k, o, n, a, v) == [kind |-> k, org |-> o, name |-> n, asofdate |-> a, value |-> v]
\* commits/issues/prs_asofdate_datalake(orgname, reponame, asofdate)
asofdate_datalake(kind, orgname, reponame, asofdate) ==
    LET d == IF TotalsLoaded(kind) THEN repo_tot[kind]
             ELSE LoadTotals(kind, TotalsFileOf(asofdate))
    IN /\ repo_tot' = [repo_tot EXCEPT ![kind] = d]
       /\ repo_tot_loaded' = repo_tot_loaded \cup {kind}
       /\ files_read' = IF TotalsLoaded(kind) THEN files_read
                        ELSE Append(files_read, <<kind, asofdate>>)
       /\ lookups' = Append(lookups,
              Lookup(kind, orgname, reponame, asofdate,
                     DictGet(d, TotalsKey(orgname, reponame))))

\* the test that makes the loop skip a row of Repo.csv
ReportSkips(r) == lower(r.org) \notin OrgFilter \/ documentation_repo(r.name)

ReportIdle ==
    UNCHANGED <<inputs, otherRuns, requests, responses, failed, ondateLocals, diffOut>>

\* "write header row to output file"
ReportOpen ==
    /\ op = "report" /\ pc = "report"
    /\ reportfile' = <<>>
    /\ rowno' = 1
    /\ pc' = "report_loop"
    /\ UNCHANGED <<status, result, endpoint, pageno, asofLocals, lookupState>>
    /\ ReportIdle

\* next row of Repo.csv: skipped, or its GitHub count is started
ReportNextRepo ==
    /\ op = "report" /\ pc = "report_loop" /\ rowno <= Len(repocsv)
    /\ IF ReportSkips(repocsv[rowno])
       THEN /\ rowno' = rowno + 1
            /\ UNCHANGED <<pc, status, result, endpoint, pageno, asofLocals>>
       ELSE /\ pc' = "first" /\ status' = "running" /\ result' = 0
            /\ endpoint' = FirstEndpoint(variant)
            /\ totpages' = 0 /\ lastpage_url' = NoURL /\ jsondata' = <<>>
            /\ commits_firstpage' = 0 /\ commits_lastpage' = 0 /\ pageno' = 0
            /\ UNCHANGED rowno
    /\ UNCHANGED <<reportfile, lookupState>>
    /\ ReportIdle

\* the count returned: Data Lake total looked up, "add this data row"
ReportRow ==
    /\ op = "report" /\ pc = "return" /\ status = "returned"
    /\ LET r == repocsv[rowno]
       IN /\ asofdate_datalake(variant, r.org, r.name, thedate)
          /\ reportfile' = Append(reportfile,
                <<r.org, r.name, lookups'[Len(lookups')].value, result>>)
    /\ rowno' = rowno + 1
    /\ pc' = "report_loop"
    /\ UNCHANGED <<status, result, endpoint, pageno, asofLocals>>
    /\ ReportIdle

\* the count raised: nothing in the loop catches it, the report function ends
ReportRaise ==
    /\ op = "report" /\ pc = "return" /\ status = "raised"
    /\ pc' = "aborted"
    /\ UNCHANGED <<status, result, endpoint, pageno, asofLocals, reportState>>
    /\ ReportIdle

\* Repo.csv is exhausted
ReportEnd ==
    /\ op = "report" /\ pc = "report_loop" /\ rowno > Len(repocsv)
    /\ pc' = "finished"
    /\ UNCHANGED <<status, result, endpoint, pageno, asofLocals, reportState>>
    /\ ReportIdle

\* ---------------------------------------------------------- page jumps
\* well-formed endpoints of a paginated query, for any page
MaxPageNo == 4
WellFormedEndpoints ==
    UNION { { WithPage(CommitsEndpoint, n), WithPage(IssuesEndpoint, n),
              WithPage(PullsEndpoint, n),
              <<Seg("commits?page", n)>>,
              <<Seg("commits?page", n), Seg("per_page", PageSize)>> }
            : n \in 1..MaxPageNo }

JumpIdle ==
    UNCHANGED <<inputs, otherRuns, requests, responses, failed, pageno, asofLocals,
                ondateLocals, diffOut, reportState>>

\* endpoint_for_pageno(endpoint, pageno)
EndpointForPageno ==
    /\ op = "jump" /\ pc = "jump"
    /\ LET e == endpoint_for_pageno(endpoint, pageno)
       IN IF e.ok
          THEN endpoint' = e.val /\ pc' = "jumped" /\ UNCHANGED <<status, result>>
          ELSE Raised /\ UNCHANGED endpoint
    /\ JumpIdle

\* endpoint_to_pageno(endpoint) of the endpoint just computed
EndpointToPageno ==
    /\ op = "jump" /\ pc = "jumped"
    /\ LET n == endpoint_to_pageno(endpoint)
       IN IF n.ok THEN Return(n.val) ELSE Raised
    /\ UNCHANGED endpoint
    /\ JumpIdle

\* ------------------------------------------------- all pages of a listing
\* endpoints github_allpages is called with: none names a page
ReposEndpoint == <<Seg("repos?per_page", PageSize)>>
MembersEndpoint == <<Txt("members?role=admin")>>
AllPagesEndpoints == {ReposEndpoint, MembersEndpoint}

\* The items of page n by their position in the listing.
PageIds(l, n) ==
    IF n < 1 \/ n > TotalPages(l) THEN <<>>
    ELSE [k \in 1..(Min(n * PageSize, Len(l)) - (n - 1) * PageSize) |->
            (n - 1) * PageSize + k]

\* payload = thispage, where the code extends payload
extend_replace(list, items) == items
\* payload.extend(thispage)
extend(list, items) == list \o items

\* the responses github_allpages is given
AllPagesKinds == RespKinds \cup {"errorlinked"}
\* the walk ended by a response that is not OK
NextPageEndpoint_okonly(response, pagelinks) ==
    IF response.ok THEN pagelinks.nextURL ELSE NoURL
\* page_endpoint = pagelinks['nextURL']
NextPageEndpoint(response, pagelinks) == pagelinks.nextURL

\* github_allpages: one turn of its loop, from the request to the break
AllPagesFetch ==
    /\ op = "allpages" /\ pc = "page"
    /\ \E kind \in AllPagesKinds :
        /\ Fetch(page_endpoint, kind)
        /\ LET response == Get(listing, page_endpoint, kind)
               links == github_pagination(response)
           IN IF response.ok /\ response.text # "list"
              THEN \* json.loads of an empty body raises
                   Raised /\ UNCHANGED allpagesLocals
              ELSE /\ payload' = IF response.ok
                                 THEN extend(payload,
                                             PageIds(listing, RequestedPage(page_endpoint)))
                                 ELSE payload
                   /\ page_endpoint' = NextPageEndpoint(response, links)
                   /\ IF Len(page_endpoint') = 0
                      THEN Return(Len(payload'))
                      ELSE UNCHANGED <<pc, status, result>>
    /\ UNCHANGED <<inputs, endpoint, pageno, asofLocals, ondateLocals, diffOut,
                   reportState, retval, rawdata, privateRepos, totalsLocals>>

\* ------------------------------------------------------- privateRepos.csv
\* rows of the Data Lake repo file as privaterepos reads them: columns 4
\* (org), 3 (repo), 60 (private) and 5 (created); last_push and last_update
\* (columns 61, 93) are empty, so last_activity is the creation date
PrivRow(o, n, p, c) == [org |-> o, name |-> n, private |-> p, created |-> c]
Berlin == <<"m", "s", "f", "t", "b", "e", "r", "l", "i", "n">>
PrivRowSet ==
    { PrivRow(<<"M">>, <<"a">>, TRUE, 1),
      PrivRow(<<"M">>, <<"a", "-", "p", "r">>, TRUE, 1),  \* a documentation repository
      PrivRow(<<"M">>, <<"b">>, FALSE, 1),                \* a public repository
      PrivRow(Berlin, <<"a">>, TRUE, 1),                  \* an internal group
      PrivRow(<<"a">>, <<"b">>, TRUE, 2),                 \* an organization not paid
      PrivRow(<<"M">>, <<"b">>, TRUE, 0) }                \* empty creation date
PrivateFiles == UNION {[1..n -> PrivRowSet] : n \in 0..MaxRepos}
PaidOrgs == {<<"m">>}

\* days_since(datestr); strptime raises on an empty string
days_since(datestr) == IF datestr = 0 THEN Raise ELSE Ok(Today - datestr)
\* date_range(datestr), given the days since
date_range(days_old) ==
    IF days_old <= 30 THEN "030" ELSE IF days_old <= 60 THEN "060"
    ELSE IF days_old <= 90 THEN "090" ELSE IF days_old <= 180 THEN "180"
    ELSE IF days_old <= 365 THEN "365" ELSE "older"

\* the rows the loop skips
PrivateSkips(r) ==
    \/ ~r.private
    \/ lower(r.org) = Berlin
    \/ HasAt(lower(r.org), 1, <<"6", "w", "u", "n", "d", "e", "r">>)

\* the row written for r
PrivateRow(r) ==
    [org |-> r.org, repo |-> r.name, created |-> r.created,
     paid |-> lower(r.org) \in PaidOrgs,
     age |-> date_range(days_since(r.created).val),
     days_old |-> days_since(r.created).val,
     last_activity |-> r.created,
     over30 |-> days_since(r.created).val > 30,
     doc_repo |-> documentation_repo(r.name)]

\* the loop from row i on, given the rows written so far: it ends at the end
\* of the file or at the first row whose date cannot be parsed
RECURSIVE PrivateLoop(_, _, _)
PrivateLoop(file, i, written) ==
    IF i > Len(file) THEN [ok |-> TRUE, rows |-> written]
    ELSE IF PrivateSkips(file[i]) THEN PrivateLoop(file, i + 1, written)
    ELSE IF ~days_since(file[i].created).ok THEN [ok |-> FALSE, rows |-> written]
    ELSE PrivateLoop(file, i + 1, Append(written, PrivateRow(file[i])))

\* privaterepos()
PrivateRepos ==
    /\ op = "private" /\ pc = "private"
    /\ LET done == PrivateLoop(repocsv, 1, <<>>)
       IN /\ privateRepos' = done.rows
          /\ IF done.ok THEN Return(Len(done.rows)) ELSE Raised
    /\ UNCHANGED <<inputs, requests, responses, failed, endpoint, pageno, asofLocals,
                   ondateLocals, diffOut, reportState, allpagesLocals, retval, rawdata,
                   totalsLocals>>

\* ------------------------------------------------------ github_pagination
\* github_pagination(response) for the response to one request
GithubPagination ==
    /\ op = "links" /\ pc = "links"
    /\ \E kind \in RespKinds :
        /\ Fetch(endpoint, kind)
        /\ retval' = github_pagination(Get(listing, endpoint, kind))
    /\ Return(0)
    /\ UNCHANGED <<inputs, endpoint, pageno, asofLocals, ondateLocals, diffOut,
                   reportState, allpagesLocals, rawdata, privateRepos, totalsLocals>>

\* ------------------------------------------------------------ dailytotals
\* rows of the daily activity log: date, org/repo and the day's issues, pull
\* requests and commits; the key is the org/repo column as it is written
LogRow(d, o, n, i, p, c) ==
    [date |-> d, orgrepo |-> <<o, n>>, issues |-> i, prs |-> p, commits |-> c]
LogRowSet ==
    { LogRow(1, <<"m">>, <<"a">>, 1, 2, 3),
      LogRow(2, <<"m">>, <<"a">>, 4, 0, 0 - 1),
      LogRow(3, <<"m">>, <<"a">>, 2, 2, 2),
      LogRow(1, <<"m">>, <<"b">>, 5, 1, 0),
      LogRow(2, <<"M">>, <<"a">>, 1, 1, 1) }      \* another key: other letter case
MaxLog == 3
LogFiles == UNION {[1..n -> LogRowSet] : n \in 0..MaxLog}

\* a dictionary in insertion order: a sequence of key and value
DictHas(d, k) == \E i \in 1..Len(d) : d[i].key = k
\* d[k] = v whether or not k is in d
DictAdd_assign(d, k, v) ==
    IF DictHas(d, k)
    THEN [i \in 1..Len(d) |-> IF d[i].key = k THEN [key |-> k, val |-> v] ELSE d[i]]
    ELSE Append(d, [key |-> k, val |-> v])
\* if k in d: d[k] += v, else: d[k] = v
DictAdd(d, k, v) ==
    IF DictHas(d, k)
    THEN [i \in 1..Len(d) |->
            IF d[i].key = k THEN [key |-> k, val |-> d[i].val + v] ELSE d[i]]
    ELSE Append(d, [key |-> k, val |-> v])
DictValue(d, k) == d[CHOOSE i \in 1..Len(d) : d[i].key = k].val

\* one turn of "for values in myreader"
TotalsRow ==
    /\ op = "totals" /\ pc = "totals" /\ lineno < Len(rawdata)
    /\ lineno' = lineno + 1
    /\ LET values == rawdata[lineno + 1]
       IN IF values.date > thedate
          THEN UNCHANGED <<tot_issues, tot_prs, tot_commits>>
          ELSE /\ tot_issues' = DictAdd(tot_issues, values.orgrepo, values.issues)
               /\ tot_prs' = DictAdd(tot_prs, values.orgrepo, values.prs)
               /\ tot_commits' = DictAdd(tot_commits, values.orgrepo, values.commits)
    /\ UNCHANGED <<inputs, pc, status, result, requests, responses, failed, endpoint,
                   pageno, asofLocals, ondateLocals, diffOut, reportState,
                   allpagesLocals, retval, rawdata, privateRepos>>

\* "with open(totfile, 'w')": one line for each key of tot_issues
TotalsWrite ==
    /\ op = "totals" /\ pc = "totals" /\ lineno = Len(rawdata)
    /\ totfile' = [i \in 1..Len(tot_issues) |->
                     LET orgrepo == tot_issues[i].key
                     IN Tot(orgrepo[1], orgrepo[2], tot_issues[i].val,
                            DictValue(tot_prs, orgrepo), DictValue(tot_commits, orgrepo))]
    /\ pc' = "return" /\ status' = "returned"
    /\ UNCHANGED <<op, variant, listing, thedate, github, datalake, repocsv,
                   notfound_at, totfile_other, result,
                   requests, responses, failed, endpoint, pageno, asofLocals,
                   ondateLocals, diffOut, reportState, allpagesLocals, retval, rawdata,
                   privateRepos, totalsLocals>>

\* ------------------------------------------------- the Data Lake lookups
\* the org/repo a lookup is called with
LookupRepos == {Repo(<<"M">>, <<"a">>), Repo(<<"M">>, <<"b">>), Repo(<<"a">>, <<"b">>)}
MaxLookups == 3

LookupIdle ==
    UNCHANGED <<inputs, pc, status, result, requests, responses, failed, endpoint,
                pageno, asofLocals, ondateLocals, diffOut, rowno, reportfile,
                otherRuns>>

\* one call of a lookup, of any kind, for any repository and date
DatalakeLookup ==
    /\ op = "lookup" /\ pc = "lookup" /\ Len(lookups) < MaxLookups
    /\ \E kind \in Kinds, r \in LookupRepos, asofdate \in 1..2 :
          asofdate_datalake(kind, r.org, r.name, asofdate)
    /\ LookupIdle

\* the first lookup of a run that began with dailytotals(rawdata, totfile, asofdate)
TotalsLookup ==
    /\ op = "totals" /\ pc = "return" /\ lookups = <<>>
    /\ \E kind \in Kinds, r \in LookupRepos :
          asofdate_datalake(kind, r.org, r.name, thedate)
    /\ LookupIdle

\* ------------------------------------------------------------------- runs
NoResponse == Get(<<>>, CommitsEndpoint, "emptybody")

\* the listings of every run but the as-of counter's have no such item
NoWords == notfound_at = 0

InitLocals ==
    /\ status = "running" /\ result = 0 /\ requests = <<>> /\ responses = <<>> /\ failed = {}
    /\ totpages = 0 /\ lastpage_url = NoURL /\ jsondata = <<>>
    /\ commits_firstpage = 0 /\ commits_lastpage = 0 /\ pageno = 0
    /\ thispage = NoResponse /\ commits = 0 /\ pages_checked = <<>>
    /\ page_before = 0 /\ page_after = 0

NoDiff ==
    /\ github = <<>> /\ datalake = <<>>

NoReport ==
    /\ repocsv = <<>> /\ totfile = <<>> /\ totfile_other = <<>>

InitReportState ==
    /\ rowno = 0 /\ reportfile = <<>>
    /\ repo_tot = [kind \in Kinds |-> <<>>] /\ repo_tot_loaded = {}
    /\ lookups = <<>> /\ files_read = <<>>

InitDiffOut ==
    /\ repo_diff_csv = <<>> /\ repo_diff_ret = <<>>
    /\ swapped_csv = <<>> /\ swapped_ret = <<>>

NoLinkData ==
    [firstpage |-> 0, firstURL |-> NoURL, prevpage |-> 0, prevURL |-> NoURL,
     nextpage |-> 0, nextURL |-> NoURL, lastpage |-> 0, lastURL |-> NoURL]
NoTotals ==
    /\ tot_issues = <<>> /\ tot_prs = <<>> /\ tot_commits = <<>> /\ lineno = 0
NoOtherRun ==
    /\ payload = <<>> /\ page_endpoint = NoURL /\ retval = NoLinkData
    /\ rawdata = <<>> /\ privateRepos = <<>> /\ NoTotals

InitAsOf ==
    /\ op = "asof" /\ variant \in AsOfVariants
    /\ NoDiff /\ InitDiffOut /\ NoReport /\ InitReportState
    /\ listing \in SortedListings /\ thedate \in 0..(MaxDate + 1)
    /\ notfound_at \in {0} \cup {n \in {1, PageSize + 1} : n <= Len(listing)}
    /\ endpoint = FirstEndpoint(variant) /\ pc = "first"
    /\ InitLocals /\ NoOtherRun

InitOnDate ==
    /\ op = "ondate" /\ variant = "ghiverify" /\ NoWords
    /\ NoDiff /\ InitDiffOut /\ NoReport /\ InitReportState
    /\ listing \in SortedListings /\ thedate \in 0..(MaxDate + 1)
    /\ endpoint = FirstEndpoint(variant) /\ pc = "first"
    /\ InitLocals /\ NoOtherRun

\* The exact-date counter on listings in any order. The code only compares an
\* item's date with thedate, so items the day before, on and after one date
\* stand for all listings.
RECURSIVE AnyOrderListings(_, _)
AnyOrderListings(n, d) ==
    IF n = 0 THEN {<<>>}
    ELSE LET shorter == AnyOrderListings(n - 1, d)
         IN shorter \cup
            UNION { {Append(l, x) : x \in {d - 1, d, d + 1}}
                    : l \in {t \in shorter : Len(t) = n - 1} }
InitOnDateAnyOrder ==
    /\ op = "ondate" /\ variant = "ghiverify" /\ NoWords
    /\ NoDiff /\ InitDiffOut /\ NoReport /\ InitReportState
    /\ thedate = 2 /\ listing \in AnyOrderListings(MaxItems, thedate)
    /\ endpoint = FirstEndpoint(variant) /\ pc = "first"
    /\ InitLocals /\ NoOtherRun

InitDiff ==
    /\ op = "diff" /\ variant \in {"name", "id"} /\ NoWords
    /\ github \in RepoFiles /\ datalake \in RepoFiles
    /\ listing = <<>>
    /\ thedate \in IF variant = "id" THEN {get_asofdate(t) : t \in FileDates} ELSE {0}
    /\ endpoint = NoURL /\ pc = "diff"
    /\ InitLocals /\ InitDiffOut /\ NoReport /\ InitReportState /\ NoOtherRun

InitReport ==
    /\ op = "report" /\ variant \in {"audit_commits", "audit_issues", "audit_prs"} /\ NoWords
    /\ repocsv \in RepoCsvFiles /\ totfile \in TotFiles /\ totfile_other = <<>>
    /\ listing \in ReportListings /\ thedate \in 1..2
    /\ endpoint = NoURL /\ pc = "report"
    /\ NoDiff /\ InitLocals /\ InitDiffOut /\ InitReportState /\ NoOtherRun

InitJump ==
    /\ op = "jump" /\ variant = "ghiverify" /\ NoWords
    /\ endpoint \in WellFormedEndpoints /\ pc = "jump"
    /\ listing = <<>> /\ thedate = 0
    /\ status = "running" /\ result = 0 /\ requests = <<>> /\ responses = <<>>
    /\ failed = {} /\ totpages = 0 /\ lastpage_url = NoURL /\ jsondata = <<>>
    /\ commits_firstpage = 0 /\ commits_lastpage = 0 /\ pageno \in 1..MaxPageNo
    /\ thispage = NoResponse /\ commits = 0 /\ pages_checked = <<>>
    /\ page_before = 0 /\ page_after = 0
    /\ NoDiff /\ InitDiffOut /\ NoReport /\ InitReportState /\ NoOtherRun

InitAllPages ==
    /\ op = "allpages" /\ variant = "shared" /\ NoWords
    /\ listing \in SortedListings /\ thedate = 0
    /\ endpoint \in AllPagesEndpoints /\ pc = "page"
    /\ InitLocals /\ NoDiff /\ InitDiffOut /\ NoReport /\ InitReportState
    /\ payload = <<>> /\ page_endpoint = endpoint
    /\ retval = NoLinkData /\ rawdata = <<>> /\ privateRepos = <<>> /\ NoTotals

InitPrivate ==
    /\ op = "private" /\ variant = "ghiverify" /\ NoWords
    /\ repocsv \in PrivateFiles /\ totfile = <<>> /\ totfile_other = <<>>
    /\ listing = <<>> /\ thedate = 0
    /\ endpoint = NoURL /\ pc = "private"
    /\ NoDiff /\ InitLocals /\ InitDiffOut /\ InitReportState /\ NoOtherRun

InitTotals ==
    /\ op = "totals" /\ variant = "audit" /\ NoWords
    /\ rawdata \in LogFiles /\ thedate \in 1..2
    /\ repocsv = <<>> /\ totfile = <<>> /\ totfile_other = <<>> /\ listing = <<>>
    /\ endpoint = NoURL /\ pc = "totals"
    /\ NoDiff /\ InitLocals /\ InitDiffOut /\ InitReportState
    /\ payload = <<>> /\ page_endpoint = NoURL /\ retval = NoLinkData
    /\ privateRepos = <<>> /\ NoTotals

InitLookup ==
    /\ op = "lookup" /\ variant = "audit" /\ NoWords
    /\ totfile \in TotFiles /\ totfile_other \in TotFiles /\ thedate \in 1..2
    /\ repocsv = <<>> /\ listing = <<>>
    /\ endpoint = NoURL /\ pc = "lookup"
    /\ NoDiff /\ InitLocals /\ InitDiffOut /\ InitReportState /\ NoOtherRun

InitLinks ==
    /\ op = "links" /\ variant = "shared" /\ NoWords
    /\ listing \in SortedListings /\ thedate = 0
    /\ endpoint \in WellFormedEndpoints \cup AllPagesEndpoints /\ pc = "links"
    /\ InitLocals /\ NoDiff /\ InitDiffOut /\ NoReport /\ InitReportState /\ NoOtherRun

Init ==
    \/ InitAsOf \/ InitOnDate \/ InitOnDateAnyOrder \/ InitDiff \/ InitReport \/ InitJump
    \/ InitAllPages \/ InitPrivate \/ InitTotals \/ InitLinks \/ InitLookup

NextAsOf == AsOfFirstPage \/ AsOfLastPage \/ AsOfWalk \/ AsOfReturn

NextOnDate ==
    \/ OnDateStart \/ OnDateFail \/ OnDateRevisit \/ OnDateHighBelow
    \/ OnDateLowAbove \/ OnDateCount

NextDiff == RepoDiff \/ RepoDiffSwapped

NextReport ==
    \/ ReportOpen \/ ReportNextRepo \/ ReportRow \/ ReportRaise \/ ReportEnd
    \/ AsOfFirstPage \/ AsOfLastPage \/ AsOfWalk \/ AsOfReturn

NextJump == EndpointForPageno \/ EndpointToPageno

NextAllPages == AllPagesFetch

NextPrivate == PrivateRepos

NextTotals == TotalsRow \/ TotalsWrite \/ TotalsLookup

NextLookup == DatalakeLookup

NextLinks == GithubPagination

\* the operations that write a report
NextReports == NextDiff \/ NextReport \/ NextPrivate

Next ==
    \/ NextAsOf \/ NextOnDate \/ NextDiff \/ NextReport \/ NextJump
    \/ NextAllPages \/ NextPrivate \/ NextTotals \/ NextLinks \/ NextLookup

\* every operation
Spec == Init /\ [][Next]_vars
\* one operation each
SpecAsOf == InitAsOf /\ [][NextAsOf]_vars
SpecOnDate == InitOnDate /\ [][NextOnDate]_vars
SpecOnDateAnyOrder == InitOnDateAnyOrder /\ [][NextOnDate]_vars
SpecDiff == InitDiff /\ [][NextDiff]_vars
SpecReport == InitReport /\ [][NextReport]_vars
SpecJump == InitJump /\ [][NextJump]_vars
SpecAllPages == InitAllPages /\ [][NextAllPages]_vars
SpecPrivate == InitPrivate /\ [][NextPrivate]_vars
SpecTotals == InitTotals /\ [][NextTotals]_vars
SpecLinks == InitLinks /\ [][NextLinks]_vars
SpecLookup == InitLookup /\ [][NextLookup]_vars
SpecReports == (InitDiff \/ InitReport \/ InitPrivate) /\ [][NextReports]_vars

\* ------------------------------------------------------------- properties
\* what a full scan of the listing counts
BruteAsOf(l, d) == Cardinality({i \in 1..Len(l) : l[i] <= d})
BruteOn(l, d) == Cardinality({i \in 1..Len(l) : l[i] = d})
AllOk == \A i \in 1..Len(responses) : responses[i] = "ok"

\* C1: with every fetch answered, the as-of counter returns exactly the number
\* of items of the whole listing dated on or before asofdate.
C1_AsOfCountExact ==
    (op = "asof" /\ pc = "return" /\ AllOk)
        => (status = "returned" /\ result = BruteAsOf(listing, thedate))

\* C2: with every fetch answered, commit_count_date_github returns exactly the
\* number of items of a (non-empty) listing dated thedate, wherever the
\* matching items lie.
C2_OnDateCountExact ==
    (op = "ondate" /\ pc = "return" /\ AllOk /\ Len(listing) > 0)
        => (status = "returned" /\ result = BruteOn(listing, thedate))

\* C3: when no item of a non-empty listing is dated thedate and every fetch is
\* answered, commit_count_date_github stops after at most one request more
\* than there are pages, and what it returns is 0.
C3_NoMatchReturnsZero ==
    (op = "ondate" /\ AllOk /\ Len(listing) > 0 /\ BruteOn(listing, thedate) = 0)
        => /\ status # "raised"
           /\ Len(requests) <= TotalPages(listing) + 1
           /\ (pc = "return" => (status = "returned" /\ result = 0))

\* a no-match search over several pages that narrowed before it stopped:
\* thedate falls in a gap and the loop ended on a page already visited
C3_Witness ==
    /\ op = "ondate" /\ pc = "return" /\ AllOk /\ status = "returned" /\ result = 0
    /\ TotalPages(listing) >= 3 /\ BruteOn(listing, thedate) = 0
    /\ listing[1] > thedate /\ listing[Len(listing)] < thedate
    /\ Len(requests) >= 3

\* the rows of a diff report of one kind, as identity keys
RowKey(v, line) == IF v = "name" THEN <<line[1], line[2]>> ELSE <<line[1], line[3]>>
RowKind(line) == line[Len(line)]
ReportedKeys(v, csv, kind) ==
    {RowKey(v, csv[i]) : i \in {j \in 1..Len(csv) : RowKind(csv[j]) = kind}}
KeysOf(v, dataset) == {RepoKey(v, dataset[i]) : i \in 1..Len(dataset)}
UniqueKeys(v, dataset) ==
    \A i \in 1..Len(dataset) : \A j \in 1..Len(dataset) :
        RepoKey(v, dataset[i]) = RepoKey(v, dataset[j]) => i = j
Diffed == op = "diff" /\ pc \in {"diffed", "return"}
SetA == repo_data(variant, github)
SetB == repo_data(variant, datalake)

\* C4: a record of A is reported missing exactly when no record of B has its
\* key, and a record of B is reported extra exactly when no record of A has
\* its key, whatever the creation dates are.
C4_MissingExtraByKey ==
    Diffed =>
        /\ \A i \in 1..Len(SetA) :
             (RepoKey(variant, SetA[i]) \in ReportedKeys(variant, repo_diff_csv, "missing"))
                <=> (RepoKey(variant, SetA[i]) \notin KeysOf(variant, SetB))
        /\ \A i \in 1..Len(SetB) :
             (RepoKey(variant, SetB[i]) \in ReportedKeys(variant, repo_diff_csv, "extra"))
                <=> (RepoKey(variant, SetB[i]) \notin KeysOf(variant, SetA))

\* C5: in both variants a record of A whose key is in B with another creation
\* date is reported as mismatch and neither as missing nor as extra (stated
\* for sets with unique keys and no empty creation date).
NoEmptyDate(dataset) == \A i \in 1..Len(dataset) : dataset[i].created # 0
C5_MismatchReported ==
    (Diffed /\ UniqueKeys(variant, SetA) /\ UniqueKeys(variant, SetB)
            /\ NoEmptyDate(SetA) /\ NoEmptyDate(SetB))
        => \A i \in 1..Len(SetA) :
             (\E j \in 1..Len(SetB) :
                  /\ RepoKey(variant, SetB[j]) = RepoKey(variant, SetA[i])
                  /\ SetB[j].created # SetA[i].created)
             => /\ RepoKey(variant, SetA[i]) \in ReportedKeys(variant, repo_diff_csv, "mismatch")
                /\ RepoKey(variant, SetA[i]) \notin ReportedKeys(variant, repo_diff_csv, "missing")
                /\ RepoKey(variant, SetA[i]) \notin ReportedKeys(variant, repo_diff_csv, "extra")

\* C6: a set with unique keys diffed against itself gives no row and only
\* zero counts.
C6_SelfDiffEmpty ==
    (Diffed /\ github = datalake /\ UniqueKeys(variant, SetA))
        => /\ repo_diff_csv = <<>>
           /\ \A i \in 1..Len(repo_diff_ret) : repo_diff_ret[i] = 0

\* C7: the keys reported missing by repo_diff(A, B) are the keys reported
\* extra by repo_diff(B, A).
C7_MissingEqualsSwappedExtra ==
    (op = "diff" /\ pc = "return")
        => ReportedKeys(variant, repo_diff_csv, "missing")
             = ReportedKeys(variant, swapped_csv, "extra")

\* both runs done, with a record reported missing by the first although the
\* other file holds records too
C7_Witness ==
    /\ op = "diff" /\ pc = "return"
    /\ ReportedKeys(variant, repo_diff_csv, "missing") # {}
    /\ Len(SetB) > 0
    /\ ReportedKeys(variant, swapped_csv, "extra") # {}

\* C8: a counter that got an empty body or an error response for one of the
\* pages of a non-empty listing does not return a count.
FetchFailed ==
    \E i \in 1..Len(responses) : responses[i] \in {"emptybody", "error"}
C8_FailureNeverCounted ==
    (op \in {"asof", "ondate"} /\ pc = "return" /\ FetchFailed /\ Len(listing) > 0)
        => status # "returned"

\* C9: the report loop is not ended by a failing count: it runs to the end of
\* Repo.csv and writes a row for every repository it does not skip.
Audited == {i \in 1..Len(repocsv) : ~ReportSkips(repocsv[i])}
C9_FailureDoesNotAbort ==
    (op = "report" /\ pc \in {"finished", "aborted"})
        => (pc = "finished" /\ Len(reportfile) = Cardinality(Audited))

\* C10: the page number read back from the endpoint computed for page n is n.
C10_PageJumpRoundTrip ==
    (op = "jump" /\ pc = "return") => (status = "returned" /\ result = pageno)

\* C11: when every response is OK, github_allpages returns the items of all
\* pages of the chain in the server's order, each exactly once.
C11_AllPagesConcatenates ==
    (op = "allpages" /\ pc = "return" /\ AllOk)
        => /\ status = "returned"
           /\ payload = [i \in 1..Len(listing) |-> i]
           /\ result = Len(listing)

\* a chain of three pages, the last one short, read to its end
C11_Witness ==
    /\ op = "allpages" /\ pc = "return" /\ AllOk /\ status = "returned"
    /\ TotalPages(listing) = 3 /\ Len(listing) < 3 * PageSize
    /\ Len(payload) = Len(listing) /\ requests = <<1, 2, 3>>

\* the repository names of the rows of the three kinds of report
DiffRowNames == {repo_diff_csv[i][2] : i \in 1..Len(repo_diff_csv)}
AuditRowNames == {reportfile[i][2] : i \in 1..Len(reportfile)}
PrivateRowNames == {privateRepos[i].repo : i \in 1..Len(privateRepos)}

\* C12: no row of a diff report, of an audit report or of privateRepos.csv is
\* for a repository that documentation_repo classifies as documentation.
C12_NoDocRepoInAnyReport ==
    \A n \in DiffRowNames \cup AuditRowNames \cup PrivateRowNames :
        ~documentation_repo(n)

\* C12 as the code has it: no row of a diff report or of an audit report is
\* for a documentation repository; privateRepos.csv has a row for every
\* private repository outside the internal groups, documentation
\* repositories among them, and its doc_repo column says which they are.
C12_NoDocRepoInDiffAndAudit ==
    /\ \A n \in DiffRowNames \cup AuditRowNames : ~documentation_repo(n)
    /\ \A i \in 1..Len(privateRepos) :
          privateRepos[i].doc_repo = documentation_repo(privateRepos[i].repo)
    /\ (op = "private" /\ pc = "return" /\ status = "returned")
          => \A i \in 1..Len(repocsv) :
                (~PrivateSkips(repocsv[i]) /\ documentation_repo(repocsv[i].name))
                    => repocsv[i].name \in PrivateRowNames

\* a documentation repository held by both repo files, and a diff report
\* with rows in which it does not appear
C12_Witness ==
    /\ op = "diff" /\ pc = "diffed" /\ Len(repo_diff_csv) > 0
    /\ \E i \in 1..Len(github) : \E j \in 1..Len(datalake) :
          /\ documentation_repo(github[i].name)
          /\ github[i].name = datalake[j].name

\* the rows repo_data takes from a file are those a given test keeps
KeptKeys(v, file, Keeps(_)) ==
    {RepoKey(v, Normalised(file[i])) : i \in {j \in 1..Len(file) : Keeps(file[j])}}
NoTodayRows ==
    LET NotToday(dataset) == \A i \in 1..Len(dataset) : dataset[i].created # Today
    IN NotToday(SetA) /\ NotToday(SetB)

\* C13: repo_data removes the records created on the run date from both sets,
\* and keeps every record created before it (documentation repositories
\* aside): with an empty Data Lake file the records reported missing are the
\* GitHub records not created today.
C13_TodayDroppedEarlierKept ==
    Diffed =>
        /\ NoTodayRows
        /\ datalake = <<>> =>
              LET NotToday(r) == ~documentation_repo(lower(r.name)) /\ r.created # Today
              IN ReportedKeys(variant, repo_diff_csv, "missing")
                    = KeptKeys(variant, github, NotToday)

\* C13 as the code has it: no record created on the run date is left in
\* either set; ghiverify.py keeps every other record, repodiff.py keeps the
\* records not created after its as-of date, the day before the Data Lake
\* file was written (documentation repositories aside).
C13_TodayDroppedOthersByVariant ==
    Diffed =>
        /\ NoTodayRows
        /\ datalake = <<>> =>
              LET Kept(r) ==
                    /\ ~documentation_repo(lower(r.name))
                    /\ IF variant = "name" THEN r.created # Today
                       ELSE r.created <= thedate
              IN ReportedKeys(variant, repo_diff_csv, "missing")
                    = KeptKeys(variant, github, Kept)

\* a GitHub file with a record created today next to one that is reported,
\* diffed by repodiff.py against a Data Lake file written the day before
C13_Witness ==
    /\ op = "diff" /\ pc = "diffed" /\ variant = "id" /\ thedate = Today - 2
    /\ datalake = <<>> /\ Len(repo_diff_csv) > 0
    /\ \E i \in 1..Len(github) : github[i].created = Today

\* the place of a kind of row in the report, and the (organization,
\* repository name) order of two report rows
KindRank(kind) == CASE kind = "missing" -> 1 [] kind = "extra" -> 2 [] OTHER -> 3
OrgRepoLess(line, other) ==
    IF line[1] # other[1] THEN StrLess(line[1], other[1])
    ELSE StrLess(line[2], other[2])
KindsThenOrgRepo(csv) ==
    \A i \in 1..Len(csv) : \A j \in 1..Len(csv) :
        i < j =>
          /\ KindRank(RowKind(csv[i])) <= KindRank(RowKind(csv[j]))
          /\ RowKind(csv[i]) = RowKind(csv[j]) => ~OrgRepoLess(csv[j], csv[i])

\* C14: in a diff report every missing row stands before every extra row and
\* every extra row before every mismatch row, and the rows of one kind are in
\* ascending order of (organization, repository name).
C14_KindsThenOrgRepoOrder ==
    /\ Diffed => KindsThenOrgRepo(repo_diff_csv)
    /\ (op = "diff" /\ pc = "return") => KindsThenOrgRepo(swapped_csv)

\* a GitHub file holding organization M before organization B, both records
\* reported missing, in a report that has a row of another kind as well
C14_Witness ==
    /\ Diffed /\ Len(github) = 2 /\ Len(repo_diff_csv) = 3
    /\ github[1].org = <<"M">> /\ github[2].org = <<"B">>
    /\ RowKind(repo_diff_csv[1]) = "missing" /\ RowKind(repo_diff_csv[2]) = "missing"
    /\ repo_diff_csv[1][1] = <<"B">> /\ repo_diff_csv[2][1] = <<"M">>
    /\ RowKind(repo_diff_csv[3]) = "extra"

\* the sum of a column over a set of rows of the log, taken in no order
RECURSIVE SumOver(_, _, _)
SumOver(file, rows, column) ==
    IF rows = {} THEN 0
    ELSE LET i == CHOOSE j \in rows : TRUE
         IN file[i][column] + SumOver(file, rows \ {i}, column)
\* the rows of the log that count for a key, and the lines written for it
RowsUpTo(k) ==
    {i \in 1..Len(rawdata) : rawdata[i].orgrepo = k /\ rawdata[i].date <= thedate}
LinesOf(k) == {i \in 1..Len(totfile) : <<totfile[i].org, totfile[i].name>> = k}
LogKeys == {rawdata[i].orgrepo : i \in 1..Len(rawdata)}

\* C15: for every key of the log, the issues, pull requests and commits
\* dailytotals writes are the sums of the day's numbers over the rows of that
\* key dated up to asofdate, in whatever order the rows stand in the log; a
\* key with such a row has one line, a key without has none.
C15_TotalsAreSums ==
    (op = "totals" /\ pc = "return") =>
        \A k \in LogKeys :
            IF RowsUpTo(k) = {} THEN LinesOf(k) = {}
            ELSE /\ Cardinality(LinesOf(k)) = 1
                 /\ \A i \in LinesOf(k) :
                       /\ totfile[i].issues = SumOver(rawdata, RowsUpTo(k), "issues")
                       /\ totfile[i].prs = SumOver(rawdata, RowsUpTo(k), "prs")
                       /\ totfile[i].commits = SumOver(rawdata, RowsUpTo(k), "commits")

\* a log of three rows whose dates stand in descending order: two rows of one
\* key that count, a row after asofdate between them or beside them dropped
C15_Witness ==
    /\ op = "totals" /\ pc = "return" /\ Len(rawdata) = 3 /\ thedate = 2
    /\ rawdata[1].date = 3 /\ rawdata[2].date = 2 /\ rawdata[3].date = 1
    /\ rawdata[2].orgrepo = rawdata[3].orgrepo
    /\ Len(totfile) = 1 /\ totfile[1].issues = 5 /\ totfile[1].commits = 2

\* C16: when the first response is the error payload of a repository that is
\* empty or not found, and when the listing is empty, the as-of counter
\* returns 0 after that one request and raises nothing.
C16_GoneOrEmptyReturnsZero ==
    (/\ op = "asof" /\ pc = "return"
     /\ \/ responses[1] = "notfound"
        \/ responses[1] = "ok" /\ listing = <<>>)
        => (status = "returned" /\ result = 0 /\ Len(requests) = 1)

\* a listing of several pages with items up to the date, answered not found
C16_Witness ==
    /\ op = "asof" /\ pc = "return" /\ responses = <<"notfound">>
    /\ TotalPages(listing) > 1 /\ BruteAsOf(listing, thedate) > 0
    /\ status = "returned" /\ result = 0

\* the exact-date search has left its loop at "pageno in pages_checked": the
\* page fetched last was usable, was not processed and had been processed
\* before
StoppedByRevisit ==
    /\ op = "ondate" /\ pc = "return"
    /\ Len(requests) = Len(pages_checked) + 1
    /\ ~OnDateUnusable /\ Checked(HerePage.val)

\* C17: an exact-date search stopped by a page number it has visited before
\* ends neither in an exception nor in a count returned like that of a
\* search that succeeded.
C17_RevisitIsDistinctOutcome ==
    StoppedByRevisit => status \notin {"raised", "returned"}

\* the response github_pagination was given, and what it has to return for
\* one relation: the URL and the value of its page parameter, or None and 0
GivenResponse == Get(listing, endpoint, responses[1])
RelationRead(url, gotURL, gotpage) ==
    /\ gotURL = url
    /\ gotpage = IF url = NoURL THEN 0 ELSE RequestedPage(url)

\* C18: github_pagination returns, for each relation of the Link header, its
\* URL and the value of the page parameter of that URL wherever the parameter
\* stands in the query, and None and 0 for every relation when the response
\* has no Link header.
C18_PageParameterRead ==
    (op = "links" /\ pc = "return") =>
        LET link == IF GivenResponse.haslink THEN GivenResponse.link ELSE NoLinks
        IN /\ RelationRead(link["first"], retval.firstURL, retval.firstpage)
           /\ RelationRead(link["prev"], retval.prevURL, retval.prevpage)
           /\ RelationRead(link["next"], retval.nextURL, retval.nextpage)
           /\ RelationRead(link["last"], retval.lastURL, retval.lastpage)

\* the oldest item of page n, and K: the first page whose oldest item is
\* dated up to the date
OldestOf(l, n) == ServerPage(l, n)[Len(ServerPage(l, n))]
FirstPageUpTo(l, d) ==
    CHOOSE k \in 1..TotalPages(l) :
        /\ OldestOf(l, k) <= d
        /\ \A j \in 1..(k - 1) : OldestOf(l, j) > d

\* C19: on a listing of T > 1 pages whose last page has an item dated up to
\* the date, the as-of counter requests page 1, the last page, and then
\* pages 2, 3, ..., K one after the other, K being the first page whose
\* oldest item is dated up to the date; it requests no other page.
C19_WalkRequestsInOrder ==
    (/\ op = "asof" /\ pc = "return" /\ AllOk
     /\ TotalPages(listing) > 1 /\ listing[Len(listing)] <= thedate)
        => LET K == FirstPageUpTo(listing, thedate)
           IN /\ status = "returned"
              /\ requests = <<1, TotalPages(listing)>> \o [i \in 1..(K - 1) |-> i + 1]

\* three pages, the date reached on the second: pages 1, 3 and 2 requested
C19_Witness ==
    /\ op = "asof" /\ pc = "return" /\ AllOk /\ status = "returned"
    /\ TotalPages(listing) = 3 /\ listing[Len(listing)] <= thedate
    /\ FirstPageUpTo(listing, thedate) = 2
    /\ requests = <<1, 3, 2>>

\* C20: whatever the listing and the date, a count the as-of counter returns
\* is at least 0 and at most the number of items of the listing.
C20_CountWithinListing ==
    (op = "asof" /\ pc = "return" /\ AllOk /\ status = "returned")
        => (0 <= result /\ result <= Len(listing))

\* C21: a first response that is a list with items never takes the
\* empty-or-not-found return, whatever text its items hold: a listing of one
\* page is counted by the dates of its items, and a listing of more pages is
\* not answered after the first request alone.
C21_ZeroReturnOnlyOnErrorPayload ==
    (op = "asof" /\ pc = "return" /\ AllOk /\ Len(listing) > 0)
        => IF TotalPages(listing) = 1
           THEN status = "returned" /\ result = BruteAsOf(listing, thedate)
           ELSE Len(requests) >= 2

\* every item of page n of the listing is newer, or older, than the date
AllNewer(l, n, d) == \A i \in 1..Len(ServerPage(l, n)) : ServerPage(l, n)[i] > d
AllOlder(l, n, d) == \A i \in 1..Len(ServerPage(l, n)) : ServerPage(l, n)[i] < d

\* C22: throughout the exact-date search page_before < page_after, the pages
\* up to page_before hold only items newer than the date and the pages from
\* page_after on hold only items older than it, for listings of one page too.
C22_BoundsBracketTheDate ==
    (op = "ondate" /\ pc \in {"loop", "return"} /\ AllOk)
        => /\ page_before < page_after
           /\ \A n \in 1..TotalPages(listing) :
                 /\ n <= page_before => AllNewer(listing, n, thedate)
                 /\ n >= page_after => AllOlder(listing, n, thedate)

\* no element of a sequence stands in it twice
NoRepeat(seq) == \A i \in 1..Len(seq) : \A j \in 1..Len(seq) : seq[i] = seq[j] => i = j

\* C23: on a listing of T >= 1 pages in any order the exact-date search
\* processes no page number twice, makes no request after one for a page it
\* has processed, and so makes at most T + 1 requests.
C23_AtMostOneRevisit ==
    (op = "ondate" /\ TotalPages(listing) >= 1)
        => /\ NoRepeat(pages_checked)
           /\ NoRepeat(SubSeq(requests, 1, Len(requests) - 1))
           /\ Len(requests) <= TotalPages(listing) + 1

\* an unsorted listing of three pages, all three processed, and the search
\* ended by a fourth request for a page it had processed
C23_Witness ==
    /\ op = "ondate" /\ pc = "return" /\ AllOk /\ TotalPages(listing) = 3
    /\ \E i \in 1..(Len(listing) - 1) : listing[i] < listing[i + 1]
    /\ Len(pages_checked) = 3 /\ Len(requests) = 4
    /\ Checked(requests[4])

\* C24: every page the exact-date search requests of a listing of T >= 1
\* pages, by a midpoint jump or by a step to the page before or after, is one
\* of the pages 1..T.
C24_RequestsWithinPages ==
    (op = "ondate" /\ TotalPages(listing) >= 1)
        => \A i \in 1..Len(requests) :
              1 <= requests[i] /\ requests[i] <= TotalPages(listing)

\* a search of three pages with a request for the page after the one in
\* hand, reaching the last page, and a request for the page before it
C24_Witness ==
    /\ op = "ondate" /\ pc = "return" /\ AllOk /\ TotalPages(listing) = 3
    /\ Len(requests) = 4
    /\ \E i \in 1..3 : requests[i + 1] = requests[i] - 1
    /\ \E i \in 1..3 : requests[i + 1] = requests[i] + 1 /\ requests[i + 1] = 3

\* a page the exact-date search has processed and counted the items of: its
\* newest item is not older and its oldest item not newer than the date
CountedPage(n) ==
    /\ Checked(n) /\ Len(ServerPage(listing, n)) > 0
    /\ ServerPage(listing, n)[1] >= thedate
    /\ OldestOf(listing, n) <= thedate

\* C25: when the exact-date search returns, every page it counted whose
\* oldest item has the date, the last page aside, has had the page after it
\* processed, and every page it counted whose newest item has the date, page
\* 1 aside, has had the page before it processed.
C25_ScansBothWays ==
    (op = "ondate" /\ pc = "return" /\ AllOk /\ status = "returned")
        => \A n \in 1..TotalPages(listing) :
              CountedPage(n) =>
                /\ (OldestOf(listing, n) = thedate /\ n < TotalPages(listing))
                      => Checked(n + 1)
                /\ (ServerPage(listing, n)[1] = thedate /\ n > 1) => Checked(n - 1)

\* C26: the exact-date search never counts more items than the listing has
\* with the date, whatever the order of the listing: neither its running
\* total nor the value it returns exceeds that number.
C26_NeverOverCounts ==
    op = "ondate"
        => /\ commits <= BruteOn(listing, thedate)
           /\ (pc = "return" /\ status = "returned")
                 => (0 <= result /\ result <= BruteOn(listing, thedate))

\* an unsorted listing whose matching items lie on more than one page, all
\* of them counted, with a request for a page already processed at the end
C26_Witness ==
    /\ op = "ondate" /\ pc = "return" /\ status = "returned" /\ AllOk
    /\ \E i \in 1..(Len(listing) - 1) : listing[i] < listing[i + 1]
    /\ result = BruteOn(listing, thedate) /\ result > PageSize
    /\ Len(requests) > Len(pages_checked)


\* the first call of the lookup of a kind
FirstOfKind(k) ==
    CHOOSE i \in 1..Len(lookups) :
        lookups[i].kind = k /\ \A j \in 1..(i - 1) : lookups[j].kind # k

\* C27: each of the three totals mappings is loaded at most once in a run, by
\* the first lookup of its kind and from the file of that lookup's asofdate;
\* every lookup of the kind, whatever asofdate it passes, returns what that
\* mapping holds for the lower-cased org/repo, and 0 for a key it lacks.
C27_TotalsLoadedOnce ==
    /\ \A i, j \in 1..Len(files_read) : files_read[i][1] = files_read[j][1] => i = j
    /\ \A i \in 1..Len(lookups) :
          LET l == lookups[i]
              first == lookups[FirstOfKind(l.kind)]
              mapping == LoadTotals(l.kind, TotalsFileOf(first.asofdate))
              key == TotalsKey(l.org, l.name)
          IN /\ \E n \in 1..Len(files_read) : files_read[n] = <<l.kind, first.asofdate>>
             /\ key \in DOMAIN mapping => l.value = mapping[key]
             /\ key \notin DOMAIN mapping => l.value = 0
    /\ \A n \in 1..Len(files_read) :
          \E i \in 1..Len(lookups) : lookups[i].kind = files_read[n][1]

\* two lookups of one kind for one repository with different dates, where the
\* file of the second date holds another value than the one returned, and a
\* lookup of a key the mapping lacks
C27_Witness ==
    /\ op = "lookup" /\ Len(lookups) = 3 /\ Len(files_read) = 1
    /\ lookups[1].asofdate # lookups[2].asofdate
    /\ TotalsKey(lookups[1].org, lookups[1].name) = TotalsKey(lookups[2].org, lookups[2].name)
    /\ lookups[2].value > 0
    /\ DictGet(LoadTotals(lookups[2].kind, TotalsFileOf(lookups[2].asofdate)),
               TotalsKey(lookups[2].org, lookups[2].name)) # lookups[2].value
    /\ lookups[3].value = 0
    /\ TotalsKey(lookups[3].org, lookups[3].name) \notin DOMAIN repo_tot[lookups[3].kind]

\* the rows of the log dated up to asofdate whose org/repo is the key when
\* letter case is ignored
RowsUpToAnyCase(k) ==
    {i \in 1..Len(rawdata) :
        /\ TotalsKey(rawdata[i].orgrepo[1], rawdata[i].orgrepo[2]) = k
        /\ rawdata[i].date <= thedate}

\* C28: the first commits lookup after dailytotals wrote the totals file of
\* asofdate returns the sum of the commits of all rows of the log dated up to
\* asofdate whose org/repo equals the one asked for when letter case is
\* ignored, however the log spells it from row to row and in whatever order
\* its rows stand.
C28_LookupIsSumIgnoringCase ==
    (op = "totals" /\ Len(lookups) = 1 /\ lookups[1].kind = "audit_commits")
        => lookups[1].value
             = SumOver(rawdata, RowsUpToAnyCase(TotalsKey(lookups[1].org, lookups[1].name)),
                       "commits")

\* the items of the first n pages requested whose response was OK
RECURSIVE ItemsOfOkPages(_)
ItemsOfOkPages(n) ==
    IF n = 0 THEN <<>>
    ELSE ItemsOfOkPages(n - 1)
         \o (IF responses[n] = "ok" THEN PageIds(listing, requests[n]) ELSE <<>>)
\* the response to the n-th request carried a 'next' link
CarriedNext(n) ==
    responses[n] \in {"ok", "errorlinked"} /\ requests[n] < TotalPages(listing)
\* every response was a page of items or was not OK
NoEmptyBody == \A n \in 1..Len(responses) : responses[n] # "emptybody"

DiffKinds == {"missing", "extra", "mismatch"}
RowsOfKind(csv, kind) == Cardinality({i \in 1..Len(csv) : RowKind(csv[i]) = kind})
\* a key held by both sets with the same creation date
SameInBoth(k) ==
    \E i \in 1..Len(SetA) : \E j \in 1..Len(SetB) :
        /\ RepoKey(variant, SetA[i]) = k /\ RepoKey(variant, SetB[j]) = k
        /\ SetA[i].created = SetB[j].created

\* C30: every key of the two sets is reported under exactly one kind or, held
\* by both sets with one creation date, is not reported at all (a key is left
\* out only then, and for sets of unique keys always then); no key is reported
\* under two kinds; the numbers repo_diff returns are the numbers of rows of
\* each kind it wrote.
C30_OneClassPerKey ==
    Diffed =>
        /\ \A k \in KeysOf(variant, SetA) \cup KeysOf(variant, SetB) :
              LET kinds == {kind \in DiffKinds :
                              k \in ReportedKeys(variant, repo_diff_csv, kind)}
              IN /\ Cardinality(kinds) <= 1
                 /\ kinds = {} => SameInBoth(k)
                 /\ (UniqueKeys(variant, SetA) /\ UniqueKeys(variant, SetB)
                        /\ SameInBoth(k))
                       => kinds = {}
        /\ repo_diff_ret[1] = RowsOfKind(repo_diff_csv, "missing")
        /\ repo_diff_ret[2] = RowsOfKind(repo_diff_csv, "extra")
        /\ Len(repo_diff_ret) = 3 => repo_diff_ret[3] = RowsOfKind(repo_diff_csv, "mismatch")
        /\ Len(repo_diff_ret) = 2 => RowsOfKind(repo_diff_csv, "mismatch") = 0
====
